---- MODULE Spec2Model ----
(***************************************************************************)
(* Model of openquake/commonlib/lt.py: Branch, BranchSet, LogicTree        *)
(* (construction and linking, reduce, rootbranches, count_rlzs, full_enum, *)
(* sample, gen_rlzs, __toh5__, __fromh5__).                                *)
(*                                                                         *)
(* Strings that the code inspects character by character (branch ids and   *)
(* the applyToBranches attribute, which `brid in atb` searches) are        *)
(* sequences of one-character strings.  Floats are exact rationals         *)
(* [num, den].  Branch objects are shared between the trees that hold      *)
(* their BranchSet, so the one mutable field, Branch.childset, lives in a  *)
(* heap (the variable childset) indexed by branch-set id and position.     *)
(***************************************************************************)
EXTENDS Integers, Sequences, FiniteSets, TLC

VARIABLES
    branchsets,  \* the list of BranchSet objects handed to LogicTree(...)
    childset,    \* heap: bsid -> position -> Branch.childset (a bsid or None)
    tree,        \* keys of t.branchset in insertion order, t the constructed tree
    status,      \* "new" before LogicTree(branchsets) returns, then "ok" / "error"
    reduced,     \* keys of the tree returned by the last t.reduce(ids), or NoTree
    result,      \* the last operation on t and what it returned
    gens,        \* the generator objects returned by sample / gen_rlzs
    rng          \* the state of numpy's global random generator

vars == <<branchsets, childset, tree, status, reduced, result, gens, rng>>

----------------------------------------------------------------------------
(* Bounds of the model                                                     *)

MaxBS == 2
MaxBr == 2
MaxAtb == 2
MaxSamples == 2
MaxSeed == 1

----------------------------------------------------------------------------
(* Values                                                                  *)

None == "None"
NoTree == <<>>

\* branch-set ids, in source order
BsNames == <<"bs1", "bs2", "bs3", "bs4">>

\* branch ids: b1, b11, b2, b3
BrNames == << <<"b", "1">>, <<"b", "1", "1">>, <<"b", "2">>, <<"b", "3">> >>

\* uncertainty models, one per position in a branch-set
UncNames == <<"A", "B", "C", "D">>

Rat(n, d) == [num |-> n, den |-> d]

RatEq(x, y) == x.num * y.den = y.num * x.den

RatMul(x, y) == Rat(x.num * y.num, x.den * y.den)

RECURSIVE Gcd(_, _)
Gcd(a, b) == IF b = 0 THEN a ELSE Gcd(b, a % b)

\* x + y, in lowest terms
RatAdd(x, y) ==
    LET n == x.num * y.den + y.num * x.den
        d == x.den * y.den
    IN  Rat(n \div Gcd(n, d), d \div Gcd(n, d))

Range(s) == {s[i] : i \in DOMAIN s}

\* the strictly increasing index sequences over 1..n of length 0..k
RECURSIVE IncSeqs(_, _)
IncSeqs(n, k) ==
    IF k = 0 \/ n = 0 THEN {<<>>}
    ELSE IncSeqs(n - 1, k)
         \cup {Append(s, n) : s \in IncSeqs(n - 1, k - 1)}

----------------------------------------------------------------------------
(* Python string operations                                                *)

\* s in t, for two str
IsSubstring(s, t) ==
    \E i \in 0..(Len(t) - Len(s)) : SubSeq(t, i + 1, i + Len(s)) = s

\* " ".join(ids)
RECURSIVE Join(_)
Join(ids) ==
    IF ids = <<>> THEN <<>>
    ELSE IF Len(ids) = 1 THEN ids[1]
    ELSE ids[1] \o <<" ">> \o Join(Tail(ids))

----------------------------------------------------------------------------
(* Branch, BranchSet                                                       *)

\* Branch(bsid, brid, uncertainty, weight): the tuple part of the object
Branch(bsid, brid, uncertainty, weight) ==
    [bsid |-> bsid, brid |-> brid, uncertainty |-> uncertainty, weight |-> weight]

\* BranchSet(branches, attrs)
BranchSet(branches, attrs) == [branches |-> branches, attrs |-> attrs]

\* attrs.get('applyToBranches') is falsy: the key is absent, or its value is ''
AtbFalsy(attrs) ==
    \/ "applyToBranches" \notin DOMAIN attrs
    \/ attrs["applyToBranches"] = <<>>

\* the test of __init__: not atb or branch.brid in atb
Selected(attrs, brid) ==
    AtbFalsy(attrs) \/ IsSubstring(brid, attrs["applyToBranches"])

----------------------------------------------------------------------------
(* LogicTree: construction and linking                                     *)

\* the keys of {k: ... for k in ids}: first occurrences, in order
RECURSIVE DictKeys(_)
DictKeys(ids) ==
    IF ids = <<>> THEN <<>>
    ELSE LET front == DictKeys(SubSeq(ids, 1, Len(ids) - 1))
             last == ids[Len(ids)]
         IN  IF last \in Range(front) THEN front ELSE Append(front, last)

\* the bsid of every BranchSet of a list
Bsids(bss) == [i \in DOMAIN bss |-> bss[i].attrs["bsid"]]

\* one round of the outer loop of __init__: the parent branches bss[i] get
\* childset bss[i+1] when selected, and keep the childset they have otherwise
LinkStep(bss, i, h) ==
    LET child == bss[i + 1]
        parent == bss[i]
        pid == parent.attrs["bsid"]
    IN  [h EXCEPT ![pid] =
            [k \in DOMAIN parent.branches |->
                IF Selected(child.attrs, parent.branches[k].brid)
                THEN child.attrs["bsid"]
                ELSE h[pid][k]]]

\* the loop of __init__ from round i on
RECURSIVE LinkLoop(_, _, _)
LinkLoop(bss, i, h) ==
    IF i >= Len(bss) THEN h
    ELSE LinkLoop(bss, i + 1, LinkStep(bss, i, h))

\* LogicTree.__init__(branchsets) on the heap h: the keys and the heap after
LogicTreeInit(bss, h) ==
    [keys |-> DictKeys(Bsids(bss)), heap |-> LinkLoop(bss, 1, h), status |-> "ok"]

\* self.branchset[bsid]: the BranchSet object registered under bsid
TreeBS(bsid) ==
    LET i == CHOOSE j \in DOMAIN branchsets : branchsets[j].attrs["bsid"] = bsid
    IN  branchsets[i]

\* LogicTree.rootbranches() of the tree with the given keys
rootbranches(keys) == TreeBS(keys[1]).branches

\* the heap right after the Branch objects are built: childset=None
FreshHeap(bss) ==
    [b \in Range(Bsids(bss)) |->
        [k \in DOMAIN (CHOOSE x \in Range(bss) : x.attrs["bsid"] = b).branches |-> None]]

----------------------------------------------------------------------------
(* Linked-tree helpers                                                     *)

\* count_rlzs(branch) for the branch at position k of branch-set b; depth
\* counts the frames left, and -1 stands for RecursionError
RECURSIVE count_rlzs(_, _, _, _)
RECURSIVE SumCounts(_, _, _, _)
count_rlzs(h, b, k, depth) ==
    IF h[b][k] = None THEN 1
    ELSE IF depth = 0 THEN -1
    ELSE SumCounts(h, h[b][k], Len(h[h[b][k]]), depth - 1)

SumCounts(h, b, n, depth) ==
    IF n = 0 THEN 0
    ELSE LET rest == SumCounts(h, b, n - 1, depth)
             this == count_rlzs(h, b, n, depth)
         IN  IF rest = -1 \/ this = -1 THEN -1 ELSE rest + this

\* list(full_enum(branch)): the leaves under a branch, depth first; the
\* one-element list <<RecursionError>> when the links form a cycle
RecursionError == <<"RecursionError", 0>>

RECURSIVE full_enum(_, _, _, _)
RECURSIVE EnumChildren(_, _, _, _, _)
full_enum(h, b, k, depth) ==
    IF h[b][k] = None THEN << <<b, k>> >>
    ELSE IF depth = 0 THEN <<RecursionError>>
    ELSE EnumChildren(h, h[b][k], 1, Len(h[h[b][k]]), depth - 1)

EnumChildren(h, b, k, n, depth) ==
    IF k > n THEN <<>>
    ELSE LET all == full_enum(h, b, k, depth) \o EnumChildren(h, b, k + 1, n, depth)
         IN  IF RecursionError \in Range(all) THEN <<RecursionError>> ELSE all

\* a chain of links longer than the number of branch-sets has a cycle
MaxDepth == Len(branchsets) + 1

----------------------------------------------------------------------------
(* Codec                                                                   *)

\* the attribute keys, in the order the source document gives them
AttrKeys == <<"uncertaintyType", "bsid", "applyToBranches">>

\* attrs.pop(key) on a copy: the mapping without the key
Pop(attrs, key) == [k \in DOMAIN attrs \ {key} |-> attrs[k]]

\* toml.dumps of one table: its key = value lines
TomlTable(attrs) ==
    LET keep == SelectSeq(AttrKeys, LAMBDA k : k \in DOMAIN attrs)
    IN  [i \in DOMAIN keep |-> <<keep[i], attrs[keep[i]]>>]

\* toml.dumps(bsetdict): one [bsid] table per branch-set, in order
TomlDumps(keys, bsetdict) ==
    [i \in DOMAIN keys |-> [table |-> keys[i], lines |-> TomlTable(bsetdict[keys[i]])]]

\* toml.loads(text): table name -> mapping of its lines
TomlLoads(text) ==
    [name \in {text[i].table : i \in DOMAIN text} |->
        LET t == text[CHOOSE i \in DOMAIN text : text[i].table = name]
        IN  [k \in {t.lines[j][1] : j \in DOMAIN t.lines} |->
                t.lines[CHOOSE j \in DOMAIN t.lines : t.lines[j][1] = k][2]]]

\* LogicTree.__toh5__ of the tree with the given keys
ToH5(keys) ==
    LET bsetdict == [b \in Range(keys) |-> Pop(TreeBS(b).attrs, "bsid")]
        RECURSIVE Flat(_)
        Flat(i) == IF i > Len(keys) THEN <<>>
                   ELSE TreeBS(keys[i]).branches \o Flat(i + 1)
    IN  [branches |-> Flat(1), branchsets |-> TomlDumps(keys, bsetdict)]

\* general.group_array(records, 'bsid'): the records of every bsid, the
\* groups in order of first appearance, the records of a group in order
GroupArray(records) ==
    LET keys == DictKeys([i \in DOMAIN records |-> records[i].bsid])
    IN  [keys |-> keys,
         map |-> [b \in Range(keys) |-> SelectSeq(records, LAMBDA r : r.bsid = b)]]

\* LogicTree.__fromh5__(dic, attrs): the tree it leaves in self, with the
\* childset of every Branch it builds
FromH5(dic) ==
    LET dic1 == GroupArray(dic.branches)
        attrs == TomlLoads(dic.branchsets)
    IN  [keys |-> dic1.keys,
         objs |-> [b \in Range(dic1.keys) |->
                     BranchSet([k \in DOMAIN dic1.map[b] |->
                                   Branch(dic1.map[b][k].bsid, dic1.map[b][k].brid,
                                          dic1.map[b][k].uncertainty,
                                          dic1.map[b][k].weight)],
                               attrs[b])],
         childset |-> [b \in Range(dic1.keys) |->
                         [k \in DOMAIN dic1.map[b] |-> None]]]

\* the tree with the given keys as objects: what __fromh5__ is to rebuild
TreeObjects(keys) ==
    [keys |-> keys,
     objs |-> [b \in Range(keys) |-> TreeBS(b)],
     childset |-> [b \in Range(keys) |-> childset[b]]]

----------------------------------------------------------------------------
(* Weighted sampling                                                       *)

\* numpy.random.seed(seed): the generator state the seed sets
Seed(seed) == seed % 16

\* one step of the generator: the state after a draw; the draw is state/16
NextState(r) == (5 * r + 3) % 16

\* the sum of the first i probabilities
RECURSIVE CumSum(_, _)
CumSum(p, i) == IF i = 0 THEN Rat(0, 1) ELSE RatAdd(CumSum(p, i - 1), p[i])

\* the index a uniform draw u/16 falls on: the first whose cumulative
\* probability exceeds it
Pick(u, p) ==
    CHOOSE i \in DOMAIN p :
        /\ u * CumSum(p, i).den < CumSum(p, i).num * 16
        /\ \A j \in 1..(i - 1) : ~(u * CumSum(p, j).den < CumSum(p, j).num * 16)

\* num_samples successive draws from state r
RECURSIVE Draws(_, _, _)
Draws(r, n, p) ==
    IF n = 0 THEN [idxs |-> <<>>, rng |-> r]
    ELSE LET r1 == NextState(r)
             rest == Draws(r1, n - 1, p)
         IN  [idxs |-> <<Pick(r1, p)>> \o rest.idxs, rng |-> rest.rng]

\* numpy.random.choice(len(weights), num_samples, p=weights) from state r:
\* ValueError unless the probabilities sum to 1
Choice(n, p, r) ==
    IF ~RatEq(CumSum(p, Len(p)), Rat(1, 1))
    THEN [ok |-> FALSE, idxs |-> <<>>, rng |-> r]
    ELSE [ok |-> TRUE, idxs |-> Draws(r, n, p).idxs, rng |-> Draws(r, n, p).rng]

\* sample without its numpy.random.seed(seed) line: the draws continue from
\* whatever state the global generator is in
sample_unseeded(objs, n, seed, r) ==
    LET weights == [i \in DOMAIN objs |-> objs[i].weight]
        c == Choice(n, weights, r)
    IN  [ok |-> c.ok, list |-> [j \in DOMAIN c.idxs |-> objs[c.idxs[j]]], rng |-> c.rng]

\* sample(weighted_objects, num_samples, seed) with the global generator in
\* state r: the objects drawn and the state the generator is left in
sample(objs, n, seed, r) ==
    LET weights == [i \in DOMAIN objs |-> objs[i].weight]
        c == Choice(n, weights, Seed(seed))
    IN  [ok |-> c.ok, list |-> [j \in DOMAIN c.idxs |-> objs[c.idxs[j]]], rng |-> c.rng]

\* the list comprehension of LogicTree.sample from the i-th branch-set on
\* (i counted from 0): one list of n branches per branch-set
RECURSIVE BrLists(_, _, _, _, _)
BrLists(keys, i, n, seed, r) ==
    IF i >= Len(keys) THEN [ok |-> TRUE, lists |-> <<>>, rng |-> r]
    ELSE LET one == sample(TreeBS(keys[i + 1]).branches, n, seed + i, r)
             rest == BrLists(keys, i + 1, n, seed, one.rng)
         IN  IF ~one.ok THEN [ok |-> FALSE, lists |-> <<>>, rng |-> one.rng]
             ELSE [ok |-> rest.ok, lists |-> <<one.list>> \o rest.lists, rng |-> rest.rng]

Realization(value, weight, lt_path, ordinal) ==
    [value |-> value, weight |-> weight, lt_path |-> lt_path, ordinal |-> ordinal]

\* LogicTree.sample with weight = 1. / len(brlists)
SampleRlz_weight_per_branchset(brlists, n, i) ==
    Realization([j \in DOMAIN brlists |-> brlists[j][i + 1].uncertainty],
                Rat(1, Len(brlists)),
                [j \in DOMAIN brlists |-> brlists[j][i + 1].brid],
                i)

\* the i-th realization (i from 0) LogicTree.sample yields
SampleRlz(brlists, n, i) ==
    Realization([j \in DOMAIN brlists |-> brlists[j][i + 1].uncertainty],
                Rat(1, n),
                [j \in DOMAIN brlists |-> brlists[j][i + 1].brid],
                i)

----------------------------------------------------------------------------
(* Full enumeration                                                        *)

\* a product whose first group varies fastest
RECURSIVE Product_first_fastest(_)
Product_first_fastest(groups) ==
    IF groups = <<>> THEN << <<>> >>
    ELSE LET rest == Product_first_fastest(Tail(groups))
             pool == Head(groups)
         IN  [i \in 1..(Len(rest) * Len(pool)) |->
                <<pool[((i - 1) % Len(pool)) + 1]>> \o rest[((i - 1) \div Len(pool)) + 1]]

\* list(itertools.product(*groups)): the last group varies fastest
RECURSIVE Product(_)
Product(groups) ==
    IF groups = <<>> THEN << <<>> >>
    ELSE LET prev == Product(SubSeq(groups, 1, Len(groups) - 1))
             pool == groups[Len(groups)]
         IN  [i \in 1..(Len(prev) * Len(pool)) |->
                Append(prev[((i - 1) \div Len(pool)) + 1],
                       pool[((i - 1) % Len(pool)) + 1])]

\* gen_rlzs with weight = branch.weight in place of weight *= branch.weight
WeightOf_last_only(branches) ==
    IF branches = <<>> THEN Rat(1, 1) ELSE branches[Len(branches)].weight

\* weight = 1, then weight *= branch.weight for every branch of the tuple
RECURSIVE WeightOf(_)
WeightOf(branches) ==
    IF branches = <<>> THEN Rat(1, 1)
    ELSE RatMul(WeightOf(SubSeq(branches, 1, Len(branches) - 1)),
                branches[Len(branches)].weight)

\* the i-th realization (i from 0) of the full enumeration
EnumRlz(branches, i) ==
    Realization([j \in DOMAIN branches |-> branches[j].uncertainty],
                WeightOf(branches),
                [j \in DOMAIN branches |-> branches[j].brid],
                i)

\* groups = [bset.branches for bset in self.branchset.values()]
Groups(keys) == [j \in DOMAIN keys |-> TreeBS(keys[j]).branches]

----------------------------------------------------------------------------
(* Generator objects                                                       *)

\* def gen_rlzs(self, num_samples=0, seed=42)
DefaultSeed == 42

\* no generator
Idle == [pc |-> "idle", n |-> 0, seed |-> 0, items |-> <<>>, i |-> 0, out |-> <<>>]

\* gen_rlzs(num_samples, seed), sample(n, seed): a generator that has not run
NewGen(n, seed) ==
    [pc |-> "start", n |-> n, seed |-> seed, items |-> <<>>, i |-> 0, out |-> <<>>]

\* the realization a running generator yields next
Yield(gen, items) ==
    IF gen.n > 0 THEN SampleRlz(items, gen.n, gen.i) ELSE EnumRlz(items[gen.i + 1], gen.i)

\* how many realizations a running generator yields in all
Total(gen, items) == IF gen.n > 0 THEN gen.n ELSE Len(items)

\* next(gen) with the global generator in state r: the generator after, and
\* the state of the global generator after
NextRlz(gen, keys, r) ==
    IF gen.pc = "start"
    THEN IF gen.n > 0
         THEN LET bl == BrLists(keys, 0, gen.n, gen.seed, r)
              IN  IF ~bl.ok
                  THEN [gen |-> [gen EXCEPT !.pc = "raised"], rng |-> bl.rng]
                  ELSE [gen |-> [gen EXCEPT !.pc = "run", !.items = bl.lists, !.i = 1,
                                            !.out = <<Yield(gen, bl.lists)>>],
                        rng |-> bl.rng]
         ELSE LET items == Product(Groups(keys))
              IN  IF Len(items) = 0
                  THEN [gen |-> [gen EXCEPT !.pc = "done"], rng |-> r]
                  ELSE [gen |-> [gen EXCEPT !.pc = "run", !.items = items, !.i = 1,
                                            !.out = <<Yield(gen, items)>>],
                        rng |-> r]
    ELSE IF gen.i < Total(gen, gen.items)
         THEN [gen |-> [gen EXCEPT !.i = @ + 1, !.out = Append(@, Yield(gen, gen.items))],
               rng |-> r]
         ELSE [gen |-> [gen EXCEPT !.pc = "done"], rng |-> r]

----------------------------------------------------------------------------
(* Inputs: what from_xml builds from a source document                     *)

\* attrs of a branch-set without / with an applyToBranches attribute
Attrs(bsid) == [uncertaintyType |-> "gmpeModel", bsid |-> bsid]

AttrsAtb(bsid, atb) ==
    [uncertaintyType |-> "gmpeModel", bsid |-> bsid, applyToBranches |-> atb]

\* weights of a branch-set of n branches: two that sum to 1, one that does not
Skewed(n) == [k \in 1..n |-> IF n = 1 THEN Rat(1, 1)
                             ELSE IF k = 1 THEN Rat(11 - n, 10) ELSE Rat(1, 10)]

ThreeTenths(n) == [k \in 1..n |-> IF k < n THEN Rat(3, 10) ELSE Rat(13 - 3 * n, 10)]

NotSummingToOne(n) == [k \in 1..n |-> Rat(4, 10)]

\* the branches of branch-set bsid with the ids BrNames[ids[k]]
BranchList(bsid, ids, weights) ==
    [k \in DOMAIN ids |-> Branch(bsid, BrNames[ids[k]], UncNames[k], weights[k])]

\* the applyToBranches values: '' and one to MaxAtb ids out of b1, b11, b2, ...
AtbValues ==
    {Join([k \in DOMAIN s |-> BrNames[s[k]]]) : s \in IncSeqs(MaxBr + 1, MaxAtb)}

\* the lists of 1..n branch-sets with ids bs1, bs2, ...; options[i] are the
\* BranchSets the i-th may be
RECURSIVE Lists(_, _)
Lists(n, options) ==
    IF n = 0 THEN {<<>>}
    ELSE {Append(front, bs) : front \in Lists(n - 1, options), bs \in options[n]}

\* linking inputs: branches b1, b11, ... in order, default weights, every filter
LinkOptions(i) ==
    LET lists == {BranchList(BsNames[i], [k \in 1..n |-> k], Skewed(n)) : n \in 1..MaxBr}
    IN  {BranchSet(l, Attrs(BsNames[i])) : l \in lists}
        \cup (IF i = 1 THEN {}
              ELSE {BranchSet(l, AttrsAtb(BsNames[i], a)) : l \in lists, a \in AtbValues})

LinkInputs == UNION {Lists(n, [i \in 1..n |-> LinkOptions(i)]) : n \in 1..MaxBS}

\* generation inputs: ids b1, b11, ... in order, every weight menu, with and
\* without a filter
WeightMenu(n) ==
    IF n = 1 THEN {Skewed(1)} ELSE {Skewed(n), ThreeTenths(n), NotSummingToOne(n)}

RlzOptions(i) ==
    LET lists == UNION {{BranchList(BsNames[i], [k \in 1..n |-> k], w) :
                            w \in WeightMenu(n)} : n \in 1..MaxBr}
    IN  {BranchSet(l, Attrs(BsNames[i])) : l \in lists}
        \cup (IF i = 1 THEN {}
              ELSE {BranchSet(l, AttrsAtb(BsNames[i], BrNames[1])) : l \in lists})

RlzInputs == UNION {Lists(n, [i \in 1..n |-> RlzOptions(i)]) : n \in 1..MaxBS}

\* interleaving inputs: two branch-sets of MaxBr branches, weights summing to 1
GenOptions(i) ==
    {BranchSet(BranchList(BsNames[i], [k \in 1..MaxBr |-> k], w), Attrs(BsNames[i])) :
        w \in {Skewed(MaxBr), ThreeTenths(MaxBr)}}

GenInputs == Lists(2, [i \in 1..2 |-> GenOptions(i)])

----------------------------------------------------------------------------
(* Operations                                                              *)

NoResult == [op |-> "none", arg |-> <<>>, val |-> <<>>]

\* the state before LogicTree(branchsets) is called
Init ==
    /\ branchsets \in LinkInputs
    /\ childset = FreshHeap(branchsets)
    /\ tree = NoTree
    /\ status = "new"
    /\ reduced = NoTree
    /\ result = NoResult
    /\ gens = [g \in {} |-> Idle]
    /\ rng = 0

\* t = LogicTree(branchsets)
Construct ==
    /\ status = "new"
    /\ LET t == LogicTreeInit(branchsets, childset)
       IN  /\ tree' = t.keys
           /\ childset' = t.heap
           /\ status' = t.status
    /\ result' = [op |-> "LogicTree", arg |-> <<>>, val |-> <<>>]
    /\ UNCHANGED <<branchsets, reduced, gens, rng>>

\* the sequences of distinct branch-set ids of t
IdSeqs ==
    {ids \in UNION {[1..n -> Range(tree)] : n \in 1..Len(tree)} :
        \A i, j \in DOMAIN ids : i # j => ids[i] # ids[j]}

\* t.reduce(bsids)
Reduce(bsids) ==
    /\ status = "ok"
    /\ LET r == LogicTreeInit([i \in DOMAIN bsids |-> TreeBS(bsids[i])], childset)
       IN  /\ reduced' = r.keys
           /\ childset' = r.heap
    /\ result' = [op |-> "reduce", arg |-> bsids, val |-> <<>>]
    /\ UNCHANGED <<branchsets, tree, status, gens, rng>>

\* t.rootbranches(), or rootbranches() of the tree reduce returned
RootBranches(keys) ==
    /\ status = "ok"
    /\ keys # NoTree
    /\ result' = [op |-> "rootbranches", arg |-> keys, val |-> rootbranches(keys)]
    /\ UNCHANGED <<branchsets, childset, tree, status, reduced, gens, rng>>

\* count_rlzs(branch) for the k-th branch of branch-set b of t
CountRlzs(b, k) ==
    /\ status = "ok"
    /\ result' = [op |-> "count_rlzs", arg |-> <<b, k>>,
                  val |-> count_rlzs(childset, b, k, MaxDepth)]
    /\ UNCHANGED <<branchsets, childset, tree, status, reduced, gens, rng>>

\* list(full_enum(branch)) for the k-th branch of branch-set b of t
FullEnum(b, k) ==
    /\ status = "ok"
    /\ result' = [op |-> "full_enum", arg |-> <<b, k>>,
                  val |-> full_enum(childset, b, k, MaxDepth)]
    /\ UNCHANGED <<branchsets, childset, tree, status, reduced, gens, rng>>

\* dic, attrs = t.__toh5__()
CallToH5 ==
    /\ status = "ok"
    /\ result' = [op |-> "toh5", arg |-> <<>>, val |-> ToH5(tree)]
    /\ UNCHANGED <<branchsets, childset, tree, status, reduced, gens, rng>>

\* LogicTree.__fromh5__(new, dic, attrs) on what __toh5__ returned
CallFromH5 ==
    /\ status = "ok"
    /\ result.op = "toh5"
    /\ result' = [op |-> "fromh5", arg |-> <<>>, val |-> FromH5(result.val)]
    /\ UNCHANGED <<branchsets, childset, tree, status, reduced, gens, rng>>

Next ==
    \/ Construct
    \/ \E bsids \in IdSeqs : Reduce(bsids)
    \/ \E keys \in {tree, reduced} : RootBranches(keys)
    \/ \E b \in Range(tree) : \E k \in DOMAIN childset[b] : CountRlzs(b, k)
    \/ \E b \in Range(tree) : \E k \in DOMAIN childset[b] : FullEnum(b, k)
    \/ CallToH5
    \/ CallFromH5

Spec == Init /\ [][Next]_vars

----------------------------------------------------------------------------
(* Generation: the generators of a constructed tree                        *)

\* the state after t = LogicTree(branchsets), with the given generator slots
Constructed(inputs, slots) ==
    /\ branchsets \in inputs
    /\ childset = LogicTreeInit(branchsets, FreshHeap(branchsets)).heap
    /\ tree = LogicTreeInit(branchsets, FreshHeap(branchsets)).keys
    /\ status = "ok"
    /\ reduced = NoTree
    /\ result = NoResult
    /\ gens = [g \in slots |-> Idle]
    /\ rng = 0

InitRlz == Constructed(RlzInputs, {"g1"})

InitGen == Constructed(GenInputs, {"g1", "g2"})

\* a slot is free for a new generator once its generator is exhausted or failed
Free(g) == gens[g].pc \in {"idle", "done", "raised"}

\* gens[g] = t.gen_rlzs(num_samples, seed): nothing runs before the first next
CallGenRlzs(g, num_samples, seed) ==
    /\ Free(g)
    /\ gens' = [gens EXCEPT ![g] = NewGen(num_samples, seed)]
    /\ UNCHANGED <<branchsets, childset, tree, status, reduced, result, rng>>

\* gens[g] = t.sample(n, seed)
CallSample(g, n, seed) ==
    /\ Free(g)
    /\ gens' = [gens EXCEPT ![g] = NewGen(n, seed)]
    /\ UNCHANGED <<branchsets, childset, tree, status, reduced, result, rng>>

\* next(gens[g])
CallNext(g) ==
    /\ gens[g].pc \in {"start", "run"}
    /\ LET after == NextRlz(gens[g], tree, rng)
       IN  /\ gens' = [gens EXCEPT ![g] = after.gen]
           /\ rng' = after.rng
    /\ UNCHANGED <<branchsets, childset, tree, status, reduced, result>>

NextGen ==
    \/ \E g \in DOMAIN gens : CallGenRlzs(g, 0, DefaultSeed)
    \/ \E g \in DOMAIN gens : \E n \in 1..MaxSamples : \E seed \in 0..MaxSeed :
           CallGenRlzs(g, n, seed)
    \/ \E g \in DOMAIN gens : \E n \in 1..MaxSamples : \E seed \in 0..MaxSeed :
           CallSample(g, n, seed)
    \/ \E g \in DOMAIN gens : CallNext(g)

SpecRlz == InitRlz /\ [][NextGen]_vars

SpecGen == InitGen /\ [][NextGen]_vars

----------------------------------------------------------------------------
(* Notions the properties are stated in                                    *)

\* the whitespace-separated words of a string: the ids a filter names
RECURSIVE SplitFrom(_, _, _)
SplitFrom(t, word, acc) ==
    IF t = <<>> THEN (IF word = <<>> THEN acc ELSE Append(acc, word))
    ELSE IF Head(t) = " "
         THEN SplitFrom(Tail(t), <<>>, IF word = <<>> THEN acc ELSE Append(acc, word))
         ELSE SplitFrom(Tail(t), Append(word, Head(t)), acc)

Split(t) == SplitFrom(t, <<>>, <<>>)

\* the ids an applyToBranches attribute lists
Listed(attrs) == Range(Split(attrs["applyToBranches"]))

\* the branch-set at position i of keys has no filter (no applyToBranches
\* attribute, or an empty one), or lists brid
ListedBy(keys, i, brid) ==
    \/ "applyToBranches" \notin DOMAIN TreeBS(keys[i]).attrs
    \/ TreeBS(keys[i]).attrs["applyToBranches"] = <<>>
    \/ brid \in Listed(TreeBS(keys[i]).attrs)

\* the links of the tree with the given keys are those of the linking rule,
\* a branch being selected as selects(keys, i, brid) says
LinkedAs(keys, selects(_, _, _)) ==
    \A i \in DOMAIN keys : \A k \in DOMAIN childset[keys[i]] :
        childset[keys[i]][k] =
            IF i < Len(keys) /\ selects(keys, i + 1, TreeBS(keys[i]).branches[k].brid)
            THEN keys[i + 1]
            ELSE None

\* no reduce has run since t was constructed
Fresh == status = "ok" /\ reduced = NoTree

\* some filter names an id that no branch of the preceding branch-set has
Malformed(bss) ==
    \E i \in 2..Len(bss) :
        /\ "applyToBranches" \in DOMAIN bss[i].attrs
        /\ \E id \in Listed(bss[i].attrs) :
               id \notin {bss[i - 1].branches[k].brid : k \in DOMAIN bss[i - 1].branches}

\* the number of branches of every branch-set, and the product from the j-th on
Lens(keys) == [j \in DOMAIN keys |-> Len(TreeBS(keys[j]).branches)]

RECURSIVE ProdFrom(_, _)
ProdFrom(lens, j) == IF j > Len(lens) THEN 1 ELSE lens[j] * ProdFrom(lens, j + 1)

\* the position in branch-set j of the branch the k-th combination (k from 0)
\* takes, the last branch-set varying fastest
PathIndex(keys, k, j) ==
    ((k \div ProdFrom(Lens(keys), j + 1)) % Lens(keys)[j]) + 1

\* the sum of the weights of a sequence of weighted things
RECURSIVE SumWeights(_)
SumWeights(ws) ==
    IF ws = <<>> THEN Rat(0, 1)
    ELSE RatAdd(SumWeights(SubSeq(ws, 1, Len(ws) - 1)), ws[Len(ws)].weight)

\* the product over the branch-sets from the j-th on of the sum of their weights
RECURSIVE ProdOfSums(_, _)
ProdOfSums(keys, j) ==
    IF j > Len(keys) THEN Rat(1, 1)
    ELSE RatMul(SumWeights(TreeBS(keys[j]).branches), ProdOfSums(keys, j + 1))

\* the branch of branch-set b with the given id
BranchNamed(b, brid) ==
    LET brs == TreeBS(b).branches
    IN  brs[CHOOSE k \in DOMAIN brs : brs[k].brid = brid]

WeightsSumToOne ==
    \A b \in Range(tree) : RatEq(SumWeights(TreeBS(b).branches), Rat(1, 1))

----------------------------------------------------------------------------
(* Properties                                                              *)

\* C1: the tree __fromh5__ rebuilds from the output of t.__toh5__() equals t:
\* the same branch-set ids in the same order, the same branches, the same
\* attrs and the same child branch-set on every branch.
C1_RoundTrip ==
    result.op = "fromh5" => result.val = TreeObjects(tree)

\* C2: a full enumeration yields, as its k-th realization (k from 0), ordinal k
\* and the lt_path of the k-th combination of the branch ids with the last
\* branch-set varying fastest; when it ends it has yielded the product of the
\* branch counts, every combination once, whatever the filters are.
C2_FullEnumeration ==
    \A g \in DOMAIN gens :
        gens[g].n = 0 /\ gens[g].pc \in {"run", "done"} =>
            LET out == gens[g].out
            IN  /\ \A k \in DOMAIN out :
                       /\ out[k].ordinal = k - 1
                       /\ out[k].lt_path =
                              [j \in DOMAIN tree |->
                                  TreeBS(tree[j]).branches[PathIndex(tree, k - 1, j)].brid]
                /\ gens[g].pc = "done" =>
                       /\ Len(out) = ProdFrom(Lens(tree), 1)
                       /\ Cardinality({out[k].lt_path : k \in DOMAIN out}) = Len(out)

C2_Witness ==
    \E g \in DOMAIN gens :
        /\ gens[g].n = 0 /\ gens[g].pc = "done"
        /\ Len(tree) = 2 /\ Lens(tree) = <<2, 2>>
        /\ "applyToBranches" \in DOMAIN TreeBS(tree[2]).attrs
        /\ Len(gens[g].out) = 4

\* C3: every realization of a full enumeration weighs the product of the
\* weights of the branches its lt_path names, and the weights of all of them
\* sum to the product over the branch-sets of the sum of the branch weights.
C3_EnumerationWeights ==
    \A g \in DOMAIN gens :
        gens[g].n = 0 /\ gens[g].pc \in {"run", "done"} =>
            LET out == gens[g].out
                Named(k) == [j \in DOMAIN tree |-> BranchNamed(tree[j], out[k].lt_path[j])]
                RECURSIVE Prod(_, _)
                Prod(brs, j) == IF j > Len(brs) THEN Rat(1, 1)
                                ELSE RatMul(brs[j].weight, Prod(brs, j + 1))
            IN  /\ \A k \in DOMAIN out : RatEq(out[k].weight, Prod(Named(k), 1))
                /\ gens[g].pc = "done" =>
                       RatEq(SumWeights(out), ProdOfSums(tree, 1))

C3_Witness ==
    \E g \in DOMAIN gens :
        /\ gens[g].n = 0 /\ gens[g].pc = "done"
        /\ Len(tree) = 2 /\ Lens(tree) = <<2, 2>>
        /\ ~WeightsSumToOne
        /\ \E k \in DOMAIN gens[g].out : gens[g].out[k].weight = Rat(12, 100)

\* C4: in a freshly constructed tree a branch of branch-set i-1 has child
\* branch-set i when branch-set i has no applyToBranches or lists the
\* branch's id, and no child otherwise; the branches of the last have none.
\* Stated for the trees whose filters name only ids the preceding branch-set
\* has (C8 is about the others).
C4_LinkingInvariant ==
    Fresh /\ ~Malformed(branchsets) => LinkedAs(tree, ListedBy)

\* C5: t.reduce(ids) returns a tree with exactly the branch-sets named, in the
\* order of ids, whose root branches are those of ids[0] and whose links are
\* those of the linking rule over ids alone (selection as the constructor
\* tests it): no link leaves ids, and the last branch-set has none.
C5_ReduceRelinks ==
    result.op = "reduce" =>
        /\ reduced = result.arg
        /\ rootbranches(reduced) = TreeBS(result.arg[1]).branches
        /\ LinkedAs(reduced, LAMBDA keys, i, brid : Selected(TreeBS(keys[i]).attrs, brid))

\* C8: constructing a LogicTree from branch-sets one of whose filters names
\* an id the preceding branch-set does not have raises an error and yields
\* no tree.
C8_MalformedFilterFails ==
    status # "new" /\ Malformed(branchsets) => status = "error" /\ tree = NoTree

\* C9: once t is constructed no operation changes its branch-set mapping or
\* the child branch-set of any of its branches.
C9_ReadOnly ==
    [][status = "ok" => tree' = tree /\ childset' = childset]_vars

\* C6: sampling a tree whose branch-set weights each sum to 1 does not fail
\* and yields exactly n realizations; the i-th has ordinal i and weight 1/n,
\* and at every position j its lt_path and value are the id and the
\* uncertainty of one branch of the j-th branch-set.
C6_SamplingShape ==
    \A g \in DOMAIN gens :
        gens[g].n > 0 /\ WeightsSumToOne =>
            LET out == gens[g].out
            IN  /\ gens[g].pc # "raised"
                /\ gens[g].pc = "done" => Len(out) = gens[g].n
                /\ \A i \in DOMAIN out :
                       /\ out[i].ordinal = i - 1
                       /\ out[i].weight = Rat(1, gens[g].n)
                       /\ Len(out[i].lt_path) = Len(tree)
                       /\ Len(out[i].value) = Len(tree)
                       /\ \A j \in DOMAIN tree :
                              \E k \in DOMAIN TreeBS(tree[j]).branches :
                                  /\ out[i].lt_path[j] = TreeBS(tree[j]).branches[k].brid
                                  /\ out[i].value[j] = TreeBS(tree[j]).branches[k].uncertainty

C6_Witness ==
    \E g \in DOMAIN gens :
        /\ gens[g].n = 2 /\ gens[g].pc = "done" /\ WeightsSumToOne
        /\ Len(tree) = 2
        /\ Len(gens[g].out) = 2
        /\ gens[g].out[1].lt_path # gens[g].out[2].lt_path

\* C7: two generators made with the same n and seed yield the same
\* realizations in the same order, whatever was generated before or in
\* between; and branch-set i is drawn with seed + i: when two branch-sets
\* carry the same weights, the second column of a sampling with seed s is
\* the first column of a sampling with seed s + 1.
C7_SamplingDeterminism ==
    \A g, h \in DOMAIN gens :
        LET a == gens[g]
            b == gens[h]
            both == DOMAIN a.out \cap DOMAIN b.out
            Weights(j) == [k \in DOMAIN TreeBS(tree[j]).branches |->
                              TreeBS(tree[j]).branches[k].weight]
        IN  /\ a.n = b.n /\ a.seed = b.seed =>
                /\ \A i \in both : a.out[i] = b.out[i]
                /\ a.pc = "done" /\ b.pc = "done" => a.out = b.out
            /\ a.n > 0 /\ a.n = b.n /\ b.seed = a.seed + 1
               /\ Len(tree) >= 2 /\ Weights(1) = Weights(2) =>
                   \A i \in both : a.out[i].value[2] = b.out[i].value[1]

C7_Witness ==
    /\ gens["g1"].pc = "done" /\ gens["g2"].pc = "done"
    /\ gens["g1"].n = 2 /\ gens["g2"].n = 2
    /\ gens["g1"].seed = gens["g2"].seed
    /\ gens["g1"].out = gens["g2"].out
    /\ gens["g1"].out[1].lt_path # gens["g1"].out[2].lt_path
    /\ rng # Seed(gens["g1"].seed)

\* C10, first part: count_rlzs of a branch is 1 when the branch has no child
\* branch-set and the sum of count_rlzs over the child's branches otherwise.
CountOf(b, k) == count_rlzs(childset, b, k, MaxDepth)

RECURSIVE SumOfCounts(_, _)
SumOfCounts(b, n) == IF n = 0 THEN 0 ELSE SumOfCounts(b, n - 1) + CountOf(b, n)

C10_CountRecursion ==
    Fresh =>
        \A b \in Range(tree) : \A k \in DOMAIN childset[b] :
            CountOf(b, k) = IF childset[b][k] = None THEN 1
                            ELSE SumOfCounts(childset[b][k], Len(childset[childset[b][k]]))

\* C10, second part: in a fresh tree whose filters (if any) list every parent
\* branch, the counts of the root branches add up to the number of
\* realizations of the full enumeration, the product of the branch counts.
C10_FlatAgreement ==
    Fresh /\ (\A i \in 2..Len(tree) : \A k \in DOMAIN childset[tree[i - 1]] :
                 ListedBy(tree, i, TreeBS(tree[i - 1]).branches[k].brid))
    => /\ SumOfCounts(tree[1], Len(childset[tree[1]])) = ProdFrom(Lens(tree), 1)
       /\ SumOfCounts(tree[1], Len(childset[tree[1]])) = Len(Product(Groups(tree)))

\* C10, third part: in a fresh tree the count of a branch that the filter of
\* the next branch-set does not list is 1.
C10_UnlistedCountsOne ==
    Fresh =>
        \A i \in 2..Len(tree) : \A k \in DOMAIN childset[tree[i - 1]] :
            ~ListedBy(tree, i, TreeBS(tree[i - 1]).branches[k].brid)
                => CountOf(tree[i - 1], k) = 1

\* C10: the three parts together, for the trees whose filters name only ids
\* the preceding branch-set has (as C4).
C10_LinkedCount ==
    ~Malformed(branchsets) =>
        C10_CountRecursion /\ C10_FlatAgreement /\ C10_UnlistedCountsOne

====
